---- MODULE Spec2Model ----
(***************************************************************************)
(* Offline signing pipeline of src/app.ts: createNonce, createTx,          *)
(* signOffline, executeTx driven by main, the artifact codec               *)
(* (encodeAndWriteTransaction / readAndDecodeTransaction), the two         *)
(* artifact files and the ledger behind the RPC connection.                *)
(***************************************************************************)
EXTENDS Integers, Sequences, FiniteSets, TLC

(***************************************************************************)
(* Bounds of the model.                                                    *)
(***************************************************************************)
\* highest block height the ledger clock reaches
MaxHeight == 3
\* number of blocks for which a recent blockhash stays valid
ValidityWindow == 1
\* largest offline delay (-waitTime), counted in blocks
MaxWait == 2
\* advances of one nonce account made by other clients of the ledger
MaxExternalAdvance == 1
\* submissions of the signed artifact made again after the run's own
MaxResubmit == 1
\* number of keys Keypair.generate() can draw from
NumFreshKeys == 4
\* largest number of command-line arguments after the script name
MaxArgs == 2
\* number of runs made one after another in the same directory
MaxRuns == 2

(***************************************************************************)
(* Program constants.                                                      *)
(***************************************************************************)
\* web3.LAMPORTS_PER_SOL * 0.01
TRANSFER_AMOUNT == 10000000
\* let waitTime = 120000
DEFAULT_WAIT_TIME == 120000

(***************************************************************************)
(* Public keys.  Keys are numbers so that the ordering used by the         *)
(* message compiler (sort by pubkey) is defined.                           *)
(***************************************************************************)
SystemProgramId == 0
SenderKey == 1
OtherAuthKey == 2
SysvarRecentBlockhashes == 3
FreshKeys == 4 .. (3 + NumFreshKeys)

NoKey == -1
\* Keypair.generate(): a key not returned before.  Only the order of a new
\* key relative to the other keys of its transaction matters, so the two
\* smallest unused keys stand for all of them.
Generate(used) ==
    {k \in FreshKeys \ used :
        Cardinality({j \in FreshKeys \ used : j < k}) < 2}
\* an unset recentBlockhash; blockhashes and nonce values share one shape
NoHash == [kind |-> "none", acct |-> NoKey, n |-> 0]
Blockhash(h) == [kind |-> "blockhash", acct |-> NoKey, n |-> h]
NonceValue(k, c) == [kind |-> "nonce", acct |-> k, n |-> c]
EmptyMessage ==
    [header |-> [numRequiredSignatures |-> 0,
                 numReadonlySignedAccounts |-> 0,
                 numReadonlyUnsignedAccounts |-> 0],
     accountKeys |-> <<>>, recentBlockhash |-> NoHash, instructions |-> <<>>]
\* the null signature of an empty slot
NoSig == [signer |-> NoKey, msg |-> EmptyMessage]
\* a file that does not exist
NoFile == <<>>
Procs == {1, 2}
UNSIGNED == "./unsigned.json"
SIGNED == "./signed.json"
Paths == {UNSIGNED, SIGNED}

(***************************************************************************)
(* Helpers.                                                                *)
(***************************************************************************)
\* F(v), with v evaluated once
Bind(v, F(_)) == CHOOSE r \in {F(x) : x \in {v}} : TRUE

\* Array.prototype.indexOf, 1-based, 0 when absent
IndexOf(s, x) ==
    IF \E i \in 1 .. Len(s) : s[i] = x
    THEN CHOOSE i \in 1 .. Len(s) :
            s[i] = x /\ \A j \in 1 .. (i - 1) : s[j] # x
    ELSE 0

Range(s) == {s[i] : i \in 1 .. Len(s)}

\* the elements of s in order, each at its first occurrence only
FirstOccurrences(seq) ==
    Bind(seq, LAMBDA s :
      Bind({i \in 1 .. Len(s) : \A j \in 1 .. (i - 1) : s[j] # s[i]},
           LAMBDA idx :
             [k \in 1 .. Cardinality(idx) |->
                s[CHOOSE i \in idx :
                    Cardinality({j \in idx : j < i}) = k - 1]]))

(***************************************************************************)
(* Instructions built by SystemProgram.                                    *)
(***************************************************************************)
Meta(k, s, w) == [pubkey |-> k, isSigner |-> s, isWritable |-> w]

\* SystemProgram.transfer({fromPubkey, toPubkey, lamports})
TransferIx(from, to, lamports) ==
    [programId |-> SystemProgramId,
     keys |-> <<Meta(from, TRUE, TRUE), Meta(to, FALSE, TRUE)>>,
     data |-> [type |-> "Transfer", lamports |-> lamports]]

\* SystemProgram.nonceAdvance({authorizedPubkey, noncePubkey})
AdvanceIx(authorized, nonceAccount) ==
    [programId |-> SystemProgramId,
     keys |-> <<Meta(nonceAccount, FALSE, TRUE),
                Meta(SysvarRecentBlockhashes, FALSE, FALSE),
                Meta(authorized, TRUE, FALSE)>>,
     data |-> [type |-> "AdvanceNonceAccount", lamports |-> 0]]

\* new Transaction()
NewTransaction ==
    [instructions |-> <<>>, feePayer |-> NoKey, recentBlockhash |-> NoHash,
     signatures |-> <<>>]

(***************************************************************************)
(* Transaction.compileMessage: account metas are collected, duplicate keys *)
(* merged (flags or-ed), sorted signer-first then writable-first then by   *)
(* key, the fee payer moved to the front, and the instructions rewritten   *)
(* to indices into the account key list.                                   *)
(***************************************************************************)
RECURSIVE InstructionMetas(_, _)
InstructionMetas(ixs, i) ==
    IF i > Len(ixs) THEN <<>>
    ELSE ixs[i].keys \o InstructionMetas(ixs, i + 1)

\* the metas of the instructions, then one for each program
AllMetas(ixs) ==
    InstructionMetas(ixs, 1)
    \o Bind(FirstOccurrences([i \in 1 .. Len(ixs) |-> ixs[i].programId]),
            LAMBDA progs :
              [i \in 1 .. Len(progs) |-> Meta(progs[i], FALSE, FALSE)])

CullDuplicates(all) ==
    Bind(all, LAMBDA metas :
      Bind(FirstOccurrences([i \in 1 .. Len(metas) |-> metas[i].pubkey]),
           LAMBDA pks :
             [k \in 1 .. Len(pks) |->
                Meta(pks[k],
                     \E i \in 1 .. Len(metas) :
                        metas[i].pubkey = pks[k] /\ metas[i].isSigner,
                     \E i \in 1 .. Len(metas) :
                        metas[i].pubkey = pks[k] /\ metas[i].isWritable)]))

\* the comparator of uniqueMetas.sort: TRUE when x goes before y
MetaBefore(x, y) ==
    IF x.isSigner # y.isSigner THEN x.isSigner
    ELSE IF x.isWritable # y.isWritable THEN x.isWritable
    ELSE x.pubkey < y.pubkey

\* metas of distinct keys, sorted: the k-th has k - 1 metas before it
SortMetas(unique) ==
    Bind(unique, LAMBDA metas :
      [k \in 1 .. Len(metas) |->
         metas[CHOOSE i \in 1 .. Len(metas) :
                 Cardinality({j \in 1 .. Len(metas) :
                                j # i /\ MetaBefore(metas[j], metas[i])})
                    = k - 1]])

FeePayerFirst(metas, feePayer) ==
    <<Meta(feePayer, TRUE, TRUE)>>
    \o SelectSeq(metas, LAMBDA m : m.pubkey # feePayer)

\* a key of this.signatures that no instruction references: "unknown signer"
UnknownSigner(metas, sigs) ==
    \E i \in 1 .. Len(sigs) :
        \A j \in 1 .. Len(metas) : metas[j].pubkey # sigs[i].publicKey

\* a referenced key present in this.signatures is made a signer
PromoteSigners(metas, sigs) ==
    [j \in 1 .. Len(metas) |->
        IF \E i \in 1 .. Len(sigs) : sigs[i].publicKey = metas[j].pubkey
        THEN Meta(metas[j].pubkey, TRUE, metas[j].isWritable)
        ELSE metas[j]]

CompileError(e) == [ok |-> FALSE, error |-> e, message |-> EmptyMessage]

\* the message of instructions ixs over the ordered account metas
MessageOf(ordered, ixs, hash) ==
    Bind(SelectSeq(ordered, LAMBDA m : m.isSigner)
            \o SelectSeq(ordered, LAMBDA m : ~m.isSigner),
         LAMBDA all :
      Bind([i \in 1 .. Len(all) |-> all[i].pubkey], LAMBDA accountKeys :
        [header |->
           [numRequiredSignatures |->
               Len(SelectSeq(all, LAMBDA m : m.isSigner)),
            numReadonlySignedAccounts |->
               Len(SelectSeq(all, LAMBDA m : m.isSigner /\ ~m.isWritable)),
            numReadonlyUnsignedAccounts |->
               Len(SelectSeq(all, LAMBDA m : ~m.isSigner /\ ~m.isWritable))],
         accountKeys |-> accountKeys,
         recentBlockhash |-> hash,
         instructions |->
           [i \in 1 .. Len(ixs) |->
              [programIdIndex |-> IndexOf(accountKeys, ixs[i].programId),
               accounts |->
                  [k \in 1 .. Len(ixs[i].keys) |->
                     IndexOf(accountKeys, ixs[i].keys[k].pubkey)],
               data |-> ixs[i].data]]]))

CompileMessage(t) ==
    Bind(t, LAMBDA tx :
      IF tx.recentBlockhash = NoHash
      THEN CompileError("Transaction recentBlockhash required")
      ELSE IF tx.feePayer = NoKey /\ tx.signatures = <<>>
      THEN CompileError("Transaction fee payer required")
      ELSE
      Bind(FeePayerFirst(
              SortMetas(CullDuplicates(AllMetas(tx.instructions))),
              IF tx.feePayer # NoKey THEN tx.feePayer
              ELSE tx.signatures[1].publicKey),
           LAMBDA sorted :
             IF UnknownSigner(sorted, tx.signatures)
             THEN CompileError("unknown signer")
             ELSE [ok |-> TRUE, error |-> "",
                   message |->
                      MessageOf(PromoteSigners(sorted, tx.signatures),
                                tx.instructions, tx.recentBlockhash)]))

(***************************************************************************)
(* Signatures.  An ed25519 signature is determined by the key and the      *)
(* message bytes; it verifies for exactly that key and that message.       *)
(***************************************************************************)
SignatureOf(key, message) == [signer |-> key, msg |-> message]

VerifySignature(sig, message, publicKey) ==
    sig.signer = publicKey /\ sig.msg = message

NullSlots(keys) ==
    [i \in 1 .. Len(keys) |-> [publicKey |-> keys[i], signature |-> NoSig]]

SlotKeys(sigs) == [i \in 1 .. Len(sigs) |-> sigs[i].publicKey]

\* Transaction._compile: the message, and this.signatures reset to empty
\* slots of the required signers unless it already lists exactly them
Compile(t) ==
    Bind(t, LAMBDA tx :
      Bind(CompileMessage(tx), LAMBDA c :
        IF ~c.ok THEN [ok |-> FALSE, message |-> EmptyMessage, tx |-> tx]
        ELSE Bind(SubSeq(c.message.accountKeys, 1,
                         c.message.header.numRequiredSignatures),
                  LAMBDA signedKeys :
                    [ok |-> TRUE, message |-> c.message,
                     tx |-> IF SlotKeys(tx.signatures) = signedKeys THEN tx
                            ELSE [tx EXCEPT
                                    !.signatures = NullSlots(signedKeys)]])))

\* Transaction._partialSign: each signer's signature goes into its slot
AddSignatures(sigs, signers, message) ==
    [i \in 1 .. Len(sigs) |->
        IF sigs[i].publicKey \in Range(signers)
        THEN [sigs[i] EXCEPT
                !.signature = SignatureOf(sigs[i].publicKey, message)]
        ELSE sigs[i]]

\* Transaction.sign(...signers): throws when a signer is not an account of
\* the transaction or not one of its required signers
Sign(t, signers) ==
    Bind(t, LAMBDA tx :
      Bind(FirstOccurrences(signers), LAMBDA unique :
        Bind(Compile([tx EXCEPT !.signatures = NullSlots(unique)]),
             LAMBDA c :
               IF ~c.ok \/ \E i \in 1 .. Len(unique) :
                              IndexOf(SlotKeys(c.tx.signatures), unique[i]) = 0
               THEN [ok |-> FALSE, tx |-> tx]
               ELSE [ok |-> TRUE,
                     tx |-> [c.tx EXCEPT !.signatures =
                               AddSignatures(c.tx.signatures, unique,
                                             c.message)]])))

(***************************************************************************)
(* Wire form.  A signature slot is 64 bytes, all zero when the slot is     *)
(* empty; the public keys of the slots are not written, they are the       *)
(* first account keys of the message.                                      *)
(***************************************************************************)
\* 64 zero bytes
ZeroSig == [signer |-> SystemProgramId, msg |-> EmptyMessage]
WireSig(sig) == IF sig = NoSig THEN ZeroSig ELSE sig
FromWireSig(bytes) == IF bytes = ZeroSig THEN NoSig ELSE bytes

NoWire == [signatures |-> <<>>, message |-> EmptyMessage]

\* the slot is empty though all signatures are required, or its signature
\* does not verify
BadSlot(slot, message, requireAllSignatures) ==
    IF slot.signature = NoSig THEN requireAllSignatures
    ELSE ~VerifySignature(slot.signature, message, slot.publicKey)

\* Transaction.serialize({requireAllSignatures}), verifySignatures = true
Serialize(t, requireAllSignatures) ==
    Bind(Compile(t), LAMBDA c :
      IF ~c.ok \/ \E i \in 1 .. Len(c.tx.signatures) :
                     BadSlot(c.tx.signatures[i], c.message,
                             requireAllSignatures)
      THEN [ok |-> FALSE, wire |-> NoWire, tx |-> c.tx]
      ELSE [ok |-> TRUE,
            wire |-> [signatures |->
                         [i \in 1 .. Len(c.tx.signatures) |->
                             WireSig(c.tx.signatures[i].signature)],
                      message |-> c.message],
            tx |-> c.tx])

IsAccountSigner(message, i) == i <= message.header.numRequiredSignatures

IsAccountWritable(message, i) ==
    IF i > message.header.numRequiredSignatures
    THEN i - message.header.numRequiredSignatures
            <= (Len(message.accountKeys)
                  - message.header.numRequiredSignatures)
               - message.header.numReadonlyUnsignedAccounts
    ELSE i <= message.header.numRequiredSignatures
               - message.header.numReadonlySignedAccounts

\* Transaction.from(bytes) = Transaction.populate(message, signatures)
TransactionFrom(w) ==
    Bind(w, LAMBDA wire :
      Bind(wire.message, LAMBDA m :
        [instructions |->
            [i \in 1 .. Len(m.instructions) |->
                [programId |-> m.accountKeys[m.instructions[i].programIdIndex],
                 keys |->
                    [k \in 1 .. Len(m.instructions[i].accounts) |->
                        Bind(m.instructions[i].accounts[k], LAMBDA a :
                          Meta(m.accountKeys[a],
                               (\E j \in 1 .. Len(wire.signatures) :
                                   m.accountKeys[j] = m.accountKeys[a])
                               \/ IsAccountSigner(m, a),
                               IsAccountWritable(m, a)))],
                 data |-> m.instructions[i].data]],
         feePayer |-> IF m.header.numRequiredSignatures > 0
                      THEN m.accountKeys[1] ELSE NoKey,
         recentBlockhash |-> m.recentBlockhash,
         signatures |->
            [i \in 1 .. Len(wire.signatures) |->
                [publicKey |-> m.accountKeys[i],
                 signature |-> FromWireSig(wire.signatures[i])]]]))

(***************************************************************************)
(* bs58 codec: a file holds the text of the wire bytes.                    *)
(***************************************************************************)
Encode(bytes) == <<[base58 |-> bytes]>>
Decode(text) == text[1].base58

\* encodeAndWriteTransaction that writes the unsigned artifact whatever the
\* file name it is given
EncodeAndWriteTransaction_FixedPath(fs, tx, filename, requireAllSignatures) ==
    Bind(Serialize(tx, requireAllSignatures), LAMBDA s :
      IF ~s.ok THEN [ok |-> FALSE, fs |-> fs, tx |-> s.tx]
      ELSE [ok |-> TRUE,
            fs |-> [fs EXCEPT ![UNSIGNED] = Encode(s.wire)],
            tx |-> s.tx])

\* encodeAndWriteTransaction that does not pass its flag on to serialize
EncodeAndWriteTransaction_FlagDropped(fs, tx, filename, requireAllSignatures) ==
    Bind(Serialize(tx, FALSE), LAMBDA s :
      IF ~s.ok THEN [ok |-> FALSE, fs |-> fs, tx |-> s.tx]
      ELSE [ok |-> TRUE,
            fs |-> [fs EXCEPT ![filename] = Encode(s.wire)],
            tx |-> s.tx])

\* encodeAndWriteTransaction(tx, filename, requireAllSignatures): the
\* serialization throws before the file is touched
EncodeAndWriteTransaction(fs, tx, filename, requireAllSignatures) ==
    Bind(Serialize(tx, requireAllSignatures), LAMBDA s :
      IF ~s.ok THEN [ok |-> FALSE, fs |-> fs, tx |-> s.tx]
      ELSE [ok |-> TRUE,
            fs |-> [fs EXCEPT ![filename] = Encode(s.wire)],
            tx |-> s.tx])

\* readAndDecodeTransaction(filename): throws when the file is missing
ReadAndDecodeTransaction(fs, filename) ==
    IF fs[filename] = NoFile THEN [ok |-> FALSE, tx |-> NewTransaction]
    ELSE [ok |-> TRUE, tx |-> TransactionFrom(Decode(fs[filename]))]

(***************************************************************************)
(* The ledger behind the RPC connection.                                   *)
(***************************************************************************)
NoAccount == [exists |-> FALSE, authority |-> NoKey, n |-> 0]

\* the nonce value stored in nonce account k
StoredNonce(accts, k) == NonceValue(k, accts[k].n)

\* every required signature is present and verifies
SignaturesValid(wire) ==
    /\ Len(wire.signatures) = wire.message.header.numRequiredSignatures
    /\ \A i \in 1 .. Len(wire.signatures) :
          /\ wire.signatures[i] # ZeroSig
          /\ VerifySignature(wire.signatures[i], wire.message,
                             wire.message.accountKeys[i])

\* the transaction is a durable-nonce transaction whose nonce is current:
\* its first instruction advances an existing nonce account that stores
\* the transaction's recentBlockhash, and the account's authority signs
NonceCurrent(wire, accts) ==
    LET m == wire.message
    IN  /\ Len(m.instructions) >= 1
        /\ m.instructions[1].data.type = "AdvanceNonceAccount"
        /\ m.accountKeys[m.instructions[1].programIdIndex] = SystemProgramId
        /\ LET k == m.accountKeys[m.instructions[1].accounts[1]]
               a == m.instructions[1].accounts[3]
           IN  /\ k \in FreshKeys
               /\ accts[k].exists
               /\ StoredNonce(accts, k) = m.recentBlockhash
               /\ accts[k].authority = m.accountKeys[a]
               /\ IsAccountSigner(m, a)

\* a ledger that keeps no record of the transactions it has processed
LedgerVerdict_NoStatusCache(wire, h, accts, done) ==
    IF ~SignaturesValid(wire) THEN "SignatureFailure"
    ELSE IF ~(\/ /\ wire.message.recentBlockhash.kind = "blockhash"
                 /\ h - wire.message.recentBlockhash.n <= ValidityWindow
              \/ NonceCurrent(wire, accts))
         THEN "BlockhashNotFound"
    ELSE "accepted"

\* what sendRawTransaction answers once the bytes reach the ledger
LedgerVerdict(wire, h, accts, done) ==
    IF ~SignaturesValid(wire) THEN "SignatureFailure"
    ELSE IF ~(\/ /\ wire.message.recentBlockhash.kind = "blockhash"
                 /\ h - wire.message.recentBlockhash.n <= ValidityWindow
              \/ NonceCurrent(wire, accts))
         THEN "BlockhashNotFound"
    ELSE IF wire.signatures[1] \in done THEN "AlreadyProcessed"
    ELSE "accepted"

\* the nonce accounts after the instructions of an accepted transaction
ApplyAdvance(wire, accts) ==
    LET m == wire.message
        adv == {m.accountKeys[m.instructions[i].accounts[1]] :
                  i \in {j \in 1 .. Len(m.instructions) :
                           m.instructions[j].data.type = "AdvanceNonceAccount"}}
    IN  [k \in FreshKeys |->
            IF k \in adv /\ accts[k].exists
            THEN [accts[k] EXCEPT !.n = @ + 1] ELSE accts[k]]

(***************************************************************************)
(* The stages of src/app.ts as functions of their inputs.                  *)
(***************************************************************************)
\* createTx that leaves the advance instruction out in nonce mode
CreateTxTransaction_NoAdvance(useNonce, sender, auth, nonceAccount, destination, hash) ==
    [NewTransaction EXCEPT
        !.instructions =
            <<TransferIx(sender, destination, TRANSFER_AMOUNT)>>,
        !.recentBlockhash = hash,
        !.feePayer = sender]

\* createTx that adds the transfer before the advance in nonce mode
CreateTxTransaction_TransferFirst(useNonce, sender, auth, nonceAccount, destination, hash) ==
    [NewTransaction EXCEPT
        !.instructions =
            IF useNonce
            THEN <<TransferIx(sender, destination, TRANSFER_AMOUNT),
                   AdvanceIx(auth, nonceAccount)>>
            ELSE <<TransferIx(sender, destination, TRANSFER_AMOUNT)>>,
        !.recentBlockhash = hash,
        !.feePayer = sender]

\* createTx: the transaction drafted for the mode
CreateTxTransaction(useNonce, sender, auth, nonceAccount, destination, hash) ==
    [NewTransaction EXCEPT
        !.instructions =
            IF useNonce
            THEN <<AdvanceIx(auth, nonceAccount),
                   TransferIx(sender, destination, TRANSFER_AMOUNT)>>
            ELSE <<TransferIx(sender, destination, TRANSFER_AMOUNT)>>,
        !.recentBlockhash = hash,
        !.feePayer = sender]

\* createTx that takes the latest blockhash in nonce mode as well
CreateTxHash_AlwaysRecent(useNonce, accts, nonceAccount, h) == Blockhash(h)

\* createTx: where the validity reference is read from
CreateTxHash(useNonce, accts, nonceAccount, h) ==
    IF useNonce THEN StoredNonce(accts, nonceAccount) ELSE Blockhash(h)

\* signOffline that signs a nonce-mode transaction with the nonce
\* authority alone
SignOfflineSigners_AuthOnly(useNonce, auth, sender) ==
    IF useNonce THEN <<auth>> ELSE <<sender>>

\* signOffline: the keypairs passed to unsignedTx.sign
SignOfflineSigners(useNonce, auth, sender) ==
    IF useNonce THEN <<auth, sender>> ELSE <<sender>>

\* signOffline that signs with the sender alone and writes the artifact the
\* way createTx does, without requiring all signatures
SignOffline_SenderOnly(fs, useNonce, auth, sender) ==
    Bind(ReadAndDecodeTransaction(fs, UNSIGNED), LAMBDA r :
      Bind(Sign(r.tx, <<sender>>), LAMBDA s :
        Bind(EncodeAndWriteTransaction(fs, s.tx, SIGNED, FALSE), LAMBDA w :
          IF ~r.ok \/ ~s.ok \/ ~w.ok THEN [ok |-> FALSE, fs |-> fs]
          ELSE [ok |-> TRUE, fs |-> w.fs])))

\* signOffline that writes the signed transaction over the unsigned artifact
SignOffline_InPlace(fs, useNonce, auth, sender) ==
    Bind(ReadAndDecodeTransaction(fs, UNSIGNED), LAMBDA r :
      Bind(Sign(r.tx, SignOfflineSigners(useNonce, auth, sender)), LAMBDA s :
        Bind(EncodeAndWriteTransaction(fs, s.tx, UNSIGNED, TRUE), LAMBDA w :
          IF ~r.ok \/ ~s.ok \/ ~w.ok THEN [ok |-> FALSE, fs |-> fs]
          ELSE [ok |-> TRUE,
                fs |-> [w.fs EXCEPT ![SIGNED] = w.fs[UNSIGNED]]])))

\* signOffline after the delay: reload, sign, write the signed artifact
SignOffline(fs, useNonce, auth, sender) ==
    Bind(ReadAndDecodeTransaction(fs, UNSIGNED), LAMBDA r :
      Bind(Sign(r.tx, SignOfflineSigners(useNonce, auth, sender)), LAMBDA s :
        Bind(EncodeAndWriteTransaction(fs, s.tx, SIGNED, TRUE), LAMBDA w :
          IF ~r.ok \/ ~s.ok \/ ~w.ok THEN [ok |-> FALSE, fs |-> fs]
          ELSE [ok |-> TRUE, fs |-> w.fs])))

\* executeTx: reload the signed artifact and serialize it for sending
ExecuteTxBytes(fs) ==
    Bind(ReadAndDecodeTransaction(fs, SIGNED), LAMBDA r :
      Bind(Serialize(r.tx, TRUE), LAMBDA s :
        IF ~r.ok \/ ~s.ok THEN [ok |-> FALSE, wire |-> NoWire]
        ELSE [ok |-> TRUE, wire |-> s.wire]))

\* main with createTx called outside the try block's chain: its failure
\* does not stop the run
MainAfter_CreateTxSwallowed(stage, threw) ==
    IF threw /\ stage # "createTx" THEN "exited"
    ELSE CASE stage = "createNonce" -> "createTx"
           [] stage = "createTx" -> "signOffline"
           [] stage = "signOffline" -> "executeTx"
           [] stage = "executeTx" -> "exited"

(***************************************************************************)
(* The command line and the environment of the process.                    *)
(***************************************************************************)
\* the arguments a command line is made of: the two flags, a number and a
\* word that is neither
ArgTokens == {"-useNonce", "-waitTime", "2", "-bogus"}

\* the number that is not a number
NaN == -1

\* parseInt(token)
ParseInt(token) == IF token = "2" THEN 2 ELSE NaN

\* process.exit(1) that ends the process with status 0
ParseExit_StatusZero(u, w) ==
    [exit |-> TRUE, code |-> 0, useNonce |-> u, waitTime |-> w]

\* console.error(...); process.exit(1)
ParseExit(u, w) ==
    [exit |-> TRUE, code |-> 1, useNonce |-> u, waitTime |-> w]

\* the loop of parseCommandLineArgs from argument i on (argv is
\* process.argv.slice(2)), useNonce and waitTime being u and w so far
RECURSIVE ParseFrom(_, _, _, _)
ParseFrom(argv, i, u, w) ==
    IF i > Len(argv)
    THEN [exit |-> FALSE, code |-> 0, useNonce |-> u, waitTime |-> w]
    ELSE IF argv[i] = "-useNonce" THEN ParseFrom(argv, i + 1, TRUE, w)
    ELSE IF argv[i] = "-waitTime"
    THEN IF i + 1 <= Len(argv)
         THEN ParseFrom(argv, i + 2, u, ParseInt(argv[i + 1]))
         ELSE ParseExit(u, w)
    ELSE ParseExit(u, w)

ParseCommandLineArgs(argv) == ParseFrom(argv, 1, FALSE, DEFAULT_WAIT_TIME)

\* setTimeout(resolve, waitTime) in blocks: a delay that is not a number
\* or is negative fires at once, and delays are counted up to MaxWait
TimerBlocks(w) ==
    IF w = NaN \/ w < 0 THEN 0 ELSE IF w > MaxWait THEN MaxWait ELSE w

\* Keypair.fromSecretKey(decode(secret)) throws on a secret that is empty
\* or is not the encoding of a key pair
SecretsLoad(senderSecret, authSecret) ==
    senderSecret = "ok" /\ authSecret = "ok"

\* the value of a function that ends without a return statement
Undefined == [defined |-> FALSE, value |-> NoSig]

\* the value executeTx returns when sendRawTransaction answered sig: the
\* identifier is logged and the function ends
ExecuteTxReturn(sig) == Undefined

\* main: where control goes after a stage, given whether it threw
MainAfter(stage, threw) ==
    IF threw THEN "exited"
    ELSE CASE stage = "createNonce" -> "createTx"
           [] stage = "createTx" -> "signOffline"
           [] stage = "signOffline" -> "executeTx"
           [] stage = "executeTx" -> "exited"

\* the run state reached when a stage returns
StateAfter(stage) ==
    CASE stage = "createNonce" -> "NonceProvisioned"
      [] stage = "createTx" -> "Drafted"
      [] stage = "signOffline" -> "Signed"
      [] stage = "executeTx" -> "Broadcast"

\* main installs no exit code: the process ends with status 0 when main's
\* promise settles, after the catch block as well
MainExitCode(threw) == 0

\* console.error calls made for a failure: createNonce's catch block logs
\* and rethrows, main's catch block logs
ErrorReports(stage, insideTry) ==
    IF stage = "createNonce" /\ insideTry THEN 2 ELSE 1

(***************************************************************************)
(* State.                                                                  *)
(***************************************************************************)
VARIABLES
    authKey,     \* public key of NONCE_AUTH_SECRET_KEY (the sender's is SenderKey)
    pc,          \* per process: the statement of main it is at
    useNonce,    \* per process: -useNonce
    waitTime,    \* per process: -waitTime, in blocks
    waitLeft,    \* per process: blocks left of the pending setTimeout
    nonceKey,    \* per process: public key of nonceKeypair
    cnBlockhash, \* per process: blockhash fetched by createNonce
    mem,         \* per process: the Transaction object last built or loaded
    runState,    \* per process: state of the run (Init .. Broadcast)
    exitCode,    \* per process: exit status, -1 while running
    fs,          \* the two artifact files
    height,      \* ledger: block height
    accounts,    \* ledger: the nonce accounts
    processed,   \* ledger: first signatures of the processed transactions
    acceptLog,   \* ledger: the transactions accepted, in order
    usedKeys,    \* keys Keypair.generate() has returned
    env,         \* what other clients of the ledger have done so far, and
                 \* the runs made so far with what they left on disk
    obs          \* per process: what the run did (history of the run)

procVars == <<pc, useNonce, waitTime, waitLeft, nonceKey, cnBlockhash,
              mem, runState, exitCode>>
ledgerVars == <<height, accounts, processed, acceptLog>>
vars == <<authKey, procVars, fs, ledgerVars, usedKeys, env, obs>>

Stages == <<"createNonce", "createTx", "signOffline", "executeTx">>

NoObs ==
    [trace |-> <<>>,          \* stages entered, in order
     failedAt |-> "",         \* the stage that threw
     reports |-> 0,           \* console.error calls
     cnOutcome |-> "none",    \* how the nonce account creation ended
     draftTx |-> NewTransaction, \* sampleTx of createTx
     draftHeight |-> 0,       \* block height when createTx read the ledger
     draftNonce |-> NoHash,   \* nonce stored in the account at that time
     signHeight |-> 0,        \* block height when the delay elapsed
     verdict |-> "none",      \* the ledger's answer to executeTx
     sendHeight |-> 0,        \* block height at the submission
     sendNonce |-> NoHash,    \* nonce stored in the account at the submission
     sent |-> NoWire,         \* the bytes executeTx submitted
     returned |-> Undefined,  \* the value executeTx returned
     draftFile |-> NoFile,    \* the unsigned artifact createTx wrote
     soStartFile |-> NoFile,  \* the unsigned artifact when signOffline began
     soInput |-> NoFile,      \* the unsigned artifact signOffline read
     signedFile |-> NoFile,   \* the signed artifact signOffline wrote
     cancelled |-> FALSE,     \* the process was interrupted during the delay
     rpc |-> 0,               \* requests issued on the RPC connection
     argv |-> <<>>,           \* process.argv.slice(2)
     senderSecret |-> "ok",   \* SENDER_SECRET_KEY: ok, missing or malformed
     authSecret |-> "ok",     \* NONCE_AUTH_SECRET_KEY, likewise
     lastOp |-> "none",       \* unit calls: the last call
     lastOk |-> TRUE,         \*   whether it returned
     lastArg |-> [path |-> "", all |-> FALSE, mode |-> FALSE],
     soLast |-> [valid |-> FALSE, mode |-> FALSE, input |-> NoFile,
                 output |-> NoFile],   \* the last signOffline that returned
     soRepeat |-> FALSE]      \*   whether it repeated the one before it

TypeOK ==
    /\ authKey \in {SenderKey, OtherAuthKey}
    /\ pc \in [Procs -> {"absent", "start", "load", "main", "createNonce",
                         "cn_send",
                         "cn_confirm", "createTx", "signOffline", "so_wait",
                         "executeTx", "exited", "unit"}]
    /\ useNonce \in [Procs -> BOOLEAN]
    /\ waitLeft \in [Procs -> 0 .. MaxWait + 1]
    /\ nonceKey \in [Procs -> FreshKeys \cup {NoKey}]
    /\ runState \in [Procs -> {"Init", "NonceProvisioned", "Drafted",
                               "Signed", "Broadcast"}]
    /\ exitCode \in [Procs -> {-1, 0, 1, 130}]
    /\ height \in 0 .. MaxHeight + 1
    /\ usedKeys \subseteq FreshKeys

InitCommon ==
    /\ authKey \in {SenderKey, OtherAuthKey}
    /\ useNonce = [p \in Procs |-> FALSE]
    /\ waitTime = [p \in Procs |-> 0]
    /\ waitLeft = [p \in Procs |-> 0]
    /\ cnBlockhash = [p \in Procs |-> NoHash]
    /\ mem = [p \in Procs |-> NewTransaction]
    /\ runState = [p \in Procs |-> "Init"]
    /\ exitCode = [p \in Procs |-> -1]
    /\ fs = [f \in Paths |-> NoFile]
    /\ processed = {}
    /\ acceptLog = <<>>
    /\ env = [advance |-> 0, resubmit |-> 0, verdict |-> "none",
              wire |-> NoWire, runs |-> 1, leftUnsigned |-> NoFile,
              leftSigned |-> NoFile]
    /\ obs = [p \in Procs |-> NoObs]

\* one process, started in an empty directory against a ledger that holds
\* no nonce account of this program
Init ==
    /\ InitCommon
    /\ pc = [p \in Procs |-> IF p = 1 THEN "start" ELSE "absent"]
    /\ nonceKey = [p \in Procs |-> NoKey]
    /\ height = 0
    /\ accounts = [k \in FreshKeys |-> NoAccount]
    /\ usedKeys = {}

(***************************************************************************)
(* main and the stages.  A stage that throws lands in main's catch block,  *)
(* which logs; the process then ends.                                      *)
(***************************************************************************)
Enter(o, stage) == [o EXCEPT !.trace = Append(@, stage)]

\* n requests go out on the RPC connection
Rpc(o, n) == [o EXCEPT !.rpc = @ + n]

\* the stage throws: main's catch, then the end of the process
Throw(p, stage, insideTry, o) ==
    /\ pc' = [pc EXCEPT ![p] = MainAfter(stage, TRUE)]
    /\ exitCode' = [exitCode EXCEPT ![p] = MainExitCode(TRUE)]
    /\ obs' = [obs EXCEPT ![p] =
                 [o EXCEPT !.failedAt = stage,
                           !.reports = @ + ErrorReports(stage, insideTry)]]
    /\ UNCHANGED runState

\* the stage returns
Return(p, stage, o) ==
    /\ pc' = [pc EXCEPT ![p] = MainAfter(stage, FALSE)]
    /\ runState' = [runState EXCEPT ![p] = StateAfter(stage)]
    /\ exitCode' = [exitCode EXCEPT ![p] =
                      IF MainAfter(stage, FALSE) = "exited"
                      THEN MainExitCode(FALSE) ELSE @]
    /\ obs' = [obs EXCEPT ![p] = o]

\* process start: the module body generates nonceKeypair, main reads the
\* command line
Start(p) ==
    /\ pc[p] = "start"
    /\ \E k \in Generate(usedKeys), u \in BOOLEAN, w \in {0, MaxWait} :
          /\ nonceKey' = [nonceKey EXCEPT ![p] = k]
          /\ usedKeys' = usedKeys \cup {k}
          /\ useNonce' = [useNonce EXCEPT ![p] = u]
          /\ waitTime' = [waitTime EXCEPT ![p] = w]
    /\ pc' = [pc EXCEPT ![p] = "createNonce"]
    /\ UNCHANGED <<authKey, waitLeft, cnBlockhash, mem, runState, exitCode,
                   fs, ledgerVars, env, obs>>

\* createNonce up to the try block: getMinimumBalanceForRentExemption and
\* getLatestBlockhash
CreateNonceFetch(p) ==
    /\ pc[p] = "createNonce"
    /\ \/ /\ cnBlockhash' = [cnBlockhash EXCEPT ![p] = Blockhash(height)]
          /\ pc' = [pc EXCEPT ![p] = "cn_send"]
          /\ obs' = [obs EXCEPT ![p] = Rpc(Enter(@, "createNonce"), 2)]
          /\ UNCHANGED <<runState, exitCode>>
       \* the first or the second of the two requests fails
       \/ /\ \E n \in {1, 2} :
                Throw(p, "createNonce", FALSE,
                      [Rpc(Enter(obs[p], "createNonce"), n) EXCEPT
                          !.cnOutcome = "fetchThrew"])
          /\ UNCHANGED cnBlockhash
    /\ UNCHANGED <<authKey, useNonce, waitTime, waitLeft, nonceKey, mem,
                   fs, ledgerVars, usedKeys, env>>

\* createNonce: sendRawTransaction of the signed creation transaction; the
\* node refuses it when its blockhash has expired
CreateNonceSend(p) ==
    /\ pc[p] = "cn_send"
    /\ \/ /\ height - cnBlockhash[p].n <= ValidityWindow
          /\ pc' = [pc EXCEPT ![p] = "cn_confirm"]
          /\ obs' = [obs EXCEPT ![p] = Rpc(@, 1)]
          /\ UNCHANGED <<runState, exitCode>>
       \/ Throw(p, "createNonce", TRUE,
                [Rpc(obs[p], 1) EXCEPT !.cnOutcome = "sendThrew"])
    /\ UNCHANGED <<authKey, useNonce, waitTime, waitLeft, nonceKey,
                   cnBlockhash, mem, fs, ledgerVars, usedKeys, env>>

\* createNonce: confirmTransaction.  It returns the status of the
\* transaction, whose err field is set when the ledger processed the
\* transaction and it failed, and throws when the blockhash expires first;
\* createNonce does not look at the value returned
CreateNonceConfirm(p) ==
    /\ pc[p] = "cn_confirm"
    /\ \/ /\ accounts' = [accounts EXCEPT ![nonceKey[p]] =
                            [exists |-> TRUE, authority |-> authKey, n |-> 0]]
          /\ Return(p, "createNonce",
                    [Rpc(obs[p], 1) EXCEPT !.cnOutcome = "success"])
       \/ /\ Return(p, "createNonce",
                    [Rpc(obs[p], 1) EXCEPT !.cnOutcome = "confirmErr"])
          /\ UNCHANGED accounts
       \/ /\ Throw(p, "createNonce", TRUE,
                   [Rpc(obs[p], 1) EXCEPT !.cnOutcome = "confirmThrew"])
          /\ UNCHANGED accounts
    /\ UNCHANGED <<authKey, useNonce, waitTime, waitLeft, nonceKey,
                   cnBlockhash, mem, fs, height, processed, acceptLog,
                   usedKeys, env>>

\* createTx that builds sampleTx and returns without writing it
CreateTxResult_NoWrite(mode, nonceAccount, destination) ==
    IF mode /\ ~accounts[nonceAccount].exists
    THEN [ok |-> FALSE, fs |-> fs, tx |-> NewTransaction]
    ELSE [ok |-> TRUE, fs |-> fs,
          tx |-> CreateTxTransaction(mode, SenderKey, authKey, nonceAccount,
                    destination,
                    CreateTxHash(mode, accounts, nonceAccount, height))]

\* createTx once its ledger read has answered: build sampleTx and write
\* the unsigned artifact
CreateTxResult(mode, nonceAccount, destination) ==
    IF mode /\ ~accounts[nonceAccount].exists
    THEN [ok |-> FALSE, fs |-> fs, tx |-> NewTransaction]
    ELSE EncodeAndWriteTransaction(fs,
            CreateTxTransaction(mode, SenderKey, authKey, nonceAccount,
                destination,
                CreateTxHash(mode, accounts, nonceAccount, height)),
            UNSIGNED, FALSE)

CreateTx(p) ==
    /\ pc[p] = "createTx"
    /\ \E d \in Generate(usedKeys) :
          /\ usedKeys' = usedKeys \cup {d}
          /\ \E r \in {CreateTxResult(useNonce[p], nonceKey[p], d)},
                o \in {Rpc(Enter(obs[p], "createTx"), 1)} :
                 \/ /\ r.ok
                    /\ fs' = r.fs
                    /\ mem' = [mem EXCEPT ![p] = r.tx]
                    /\ Return(p, "createTx",
                              [o EXCEPT !.draftTx = r.tx,
                                        !.draftFile = r.fs[UNSIGNED],
                                        !.draftHeight = height,
                                        !.draftNonce =
                                            IF useNonce[p]
                                            THEN StoredNonce(accounts,
                                                             nonceKey[p])
                                            ELSE NoHash])
                 \/ /\ ~r.ok
                    /\ Throw(p, "createTx", FALSE, o)
                    /\ UNCHANGED <<fs, mem>>
                 \* getAccountInfo or getLatestBlockhash fails
                 \/ /\ Throw(p, "createTx", FALSE, o)
                    /\ UNCHANGED <<fs, mem>>
    /\ UNCHANGED <<authKey, useNonce, waitTime, waitLeft, nonceKey,
                   cnBlockhash, ledgerVars, env>>

\* signOffline: the progress line, then setTimeout(resolve, waitTime)
SignOfflineStart(p) ==
    /\ pc[p] = "signOffline"
    /\ pc' = [pc EXCEPT ![p] = "so_wait"]
    /\ waitLeft' = [waitLeft EXCEPT ![p] = TimerBlocks(waitTime[p])]
    /\ obs' = [obs EXCEPT ![p] =
                 [Enter(@, "signOffline") EXCEPT
                     !.soStartFile = fs[UNSIGNED]]]
    /\ UNCHANGED <<authKey, useNonce, waitTime, nonceKey, cnBlockhash,
                   mem, runState, exitCode, fs, ledgerVars, usedKeys, env>>

\* signOffline when the timer has fired
SignOfflineSign(p) ==
    /\ pc[p] = "so_wait"
    /\ waitLeft[p] = 0
    /\ \E r \in {SignOffline(fs, useNonce[p], authKey, SenderKey)},
          o \in {[obs[p] EXCEPT !.signHeight = height,
                                !.soInput = fs[UNSIGNED]]} :
           \/ /\ r.ok
              /\ fs' = r.fs
              /\ Return(p, "signOffline",
                        [o EXCEPT !.signedFile = r.fs[SIGNED]])
           \/ /\ ~r.ok
              /\ Throw(p, "signOffline", FALSE, o)
              /\ UNCHANGED fs
    /\ UNCHANGED <<authKey, useNonce, waitTime, waitLeft, nonceKey,
                   cnBlockhash, mem, ledgerVars, usedKeys, env>>

\* the ledger processes an accepted transaction
Accept(wire) ==
    /\ processed' = processed \cup {wire.signatures[1]}
    /\ accounts' = ApplyAdvance(wire, accounts)
    /\ acceptLog' = Append(acceptLog, wire)

\* executeTx: reload the signed artifact and sendRawTransaction
ExecuteTx(p) ==
    /\ pc[p] = "executeTx"
    /\ \E b \in {ExecuteTxBytes(fs)} :
       \E v \in {LedgerVerdict(b.wire, height, accounts, processed)},
          o \in {[Rpc(Enter(obs[p], "executeTx"), IF b.ok THEN 1 ELSE 0)
                    EXCEPT
                    !.sent = b.wire,
                    !.sendHeight = height,
                    !.sendNonce = IF useNonce[p]
                                  THEN StoredNonce(accounts, nonceKey[p])
                                  ELSE NoHash]} :
           \/ /\ b.ok /\ v = "accepted"
              /\ Accept(b.wire)
              /\ Return(p, "executeTx",
                        [o EXCEPT !.verdict = v,
                                  !.returned =
                                     ExecuteTxReturn(b.wire.signatures[1])])
           \/ /\ b.ok /\ v # "accepted"
              /\ Throw(p, "executeTx", FALSE, [o EXCEPT !.verdict = v])
              /\ UNCHANGED <<accounts, processed, acceptLog>>
           \* the request does not reach the ledger
           \/ /\ Throw(p, "executeTx", FALSE,
                       [o EXCEPT !.verdict = "NetworkError"])
              /\ UNCHANGED <<accounts, processed, acceptLog>>
    /\ UNCHANGED <<authKey, useNonce, waitTime, waitLeft, nonceKey,
                   cnBlockhash, mem, fs, height, usedKeys, env>>

(***************************************************************************)
(* The environment: the ledger clock and the other clients of the ledger.  *)
(***************************************************************************)
\* a block is produced; pending timers come one block closer
Tick ==
    /\ height < MaxHeight
    /\ height' = height + 1
    /\ waitLeft' = [p \in Procs |->
                      IF pc[p] = "so_wait" /\ waitLeft[p] > 0
                      THEN waitLeft[p] - 1 ELSE waitLeft[p]]
    /\ UNCHANGED <<authKey, pc, useNonce, waitTime, nonceKey, cnBlockhash,
                   mem, runState, exitCode, fs, accounts, processed,
                   acceptLog, usedKeys, env, obs>>

\* another transaction of the nonce authority advances nonce account k
ExternalAdvance(k) ==
    /\ accounts[k].exists
    /\ env.advance < MaxExternalAdvance
    /\ accounts' = [accounts EXCEPT ![k].n = @ + 1]
    /\ env' = [env EXCEPT !.advance = @ + 1]
    /\ UNCHANGED <<authKey, procVars, fs, height, processed, acceptLog,
                   usedKeys, obs>>

\* whoever holds the signed artifact submits it (again)
Resubmit ==
    /\ fs[SIGNED] # NoFile
    /\ env.resubmit < MaxResubmit
    /\ \E w \in {Decode(fs[SIGNED])} :
       \E v \in {LedgerVerdict(w, height, accounts, processed)} :
           /\ env' = [env EXCEPT !.resubmit = @ + 1, !.verdict = v,
                                 !.wire = w]
           /\ IF v = "accepted" THEN Accept(w)
              ELSE UNCHANGED <<accounts, processed, acceptLog>>
    /\ UNCHANGED <<authKey, procVars, fs, height, usedKeys, obs>>

Next ==
    \/ \E p \in Procs : Start(p)
    \/ \E p \in Procs : CreateNonceFetch(p)
    \/ \E p \in Procs : CreateNonceSend(p)
    \/ \E p \in Procs : CreateNonceConfirm(p)
    \/ \E p \in Procs : CreateTx(p)
    \/ \E p \in Procs : SignOfflineStart(p)
    \/ \E p \in Procs : SignOfflineSign(p)
    \/ \E p \in Procs : ExecuteTx(p)
    \/ Tick
    \/ \E k \in FreshKeys : ExternalAdvance(k)
    \/ Resubmit

Spec == Init /\ [][Next]_vars

(***************************************************************************)
(* The process from its first statement: the module body reads the two     *)
(* secrets from the environment, main parses the command line, and the     *)
(* stages follow.                                                          *)
(***************************************************************************)
Argvs == UNION {[1 .. n -> ArgTokens] : n \in 0 .. MaxArgs}
SecretStates == {"ok", "missing", "malformed"}

InitArgs ==
    /\ authKey \in {SenderKey, OtherAuthKey}
    /\ useNonce = [p \in Procs |-> FALSE]
    /\ waitTime = [p \in Procs |-> 0]
    /\ waitLeft = [p \in Procs |-> 0]
    /\ cnBlockhash = [p \in Procs |-> NoHash]
    /\ mem = [p \in Procs |-> NewTransaction]
    /\ runState = [p \in Procs |-> "Init"]
    /\ exitCode = [p \in Procs |-> -1]
    /\ fs = [f \in Paths |-> NoFile]
    /\ processed = {}
    /\ acceptLog = <<>>
    /\ env = [advance |-> 0, resubmit |-> 0, verdict |-> "none",
              wire |-> NoWire, runs |-> 1, leftUnsigned |-> NoFile,
              leftSigned |-> NoFile]
    /\ pc = [p \in Procs |-> IF p = 1 THEN "load" ELSE "absent"]
    /\ nonceKey = [p \in Procs |-> NoKey]
    /\ height = 0
    /\ accounts = [k \in FreshKeys |-> NoAccount]
    /\ usedKeys = {}
    /\ \E a \in Argvs, ss \in SecretStates, as \in SecretStates :
          obs = [p \in Procs |->
                   IF p = 1
                   THEN [NoObs EXCEPT !.argv = a, !.senderSecret = ss,
                                      !.authSecret = as]
                   ELSE NoObs]

\* the module body, lines 10 to 26: an exception thrown here is uncaught,
\* the runtime prints it and the process ends with status 1
LoadModule(p) ==
    /\ pc[p] = "load"
    /\ IF SecretsLoad(obs[p].senderSecret, obs[p].authSecret)
       THEN /\ \E k \in Generate(usedKeys) :
                  /\ nonceKey' = [nonceKey EXCEPT ![p] = k]
                  /\ usedKeys' = usedKeys \cup {k}
            /\ pc' = [pc EXCEPT ![p] = "main"]
            /\ UNCHANGED <<exitCode, obs>>
       ELSE /\ pc' = [pc EXCEPT ![p] = "exited"]
            /\ exitCode' = [exitCode EXCEPT ![p] = 1]
            /\ obs' = [obs EXCEPT ![p].reports = @ + 1]
            /\ UNCHANGED <<nonceKey, usedKeys>>
    /\ UNCHANGED <<authKey, useNonce, waitTime, waitLeft, cnBlockhash, mem,
                   runState, fs, ledgerVars, env>>

\* main up to the try block: parseCommandLineArgs and the banner
ParseArgs(p) ==
    /\ pc[p] = "main"
    /\ \E r \in {ParseCommandLineArgs(obs[p].argv)} :
          IF r.exit
          THEN /\ pc' = [pc EXCEPT ![p] = "exited"]
               /\ exitCode' = [exitCode EXCEPT ![p] = r.code]
               /\ obs' = [obs EXCEPT ![p].reports = @ + 1]
               /\ UNCHANGED <<useNonce, waitTime>>
          ELSE /\ pc' = [pc EXCEPT ![p] = "createNonce"]
               /\ useNonce' = [useNonce EXCEPT ![p] = r.useNonce]
               /\ waitTime' = [waitTime EXCEPT ![p] = r.waitTime]
               /\ UNCHANGED <<exitCode, obs>>
    /\ UNCHANGED <<authKey, waitLeft, nonceKey, cnBlockhash, mem, runState,
                   fs, ledgerVars, usedKeys, env>>

NextArgs ==
    \/ \E p \in Procs : LoadModule(p)
    \/ \E p \in Procs : ParseArgs(p)
    \/ \E p \in Procs : CreateNonceFetch(p)
    \/ \E p \in Procs : CreateNonceSend(p)
    \/ \E p \in Procs : CreateNonceConfirm(p)
    \/ \E p \in Procs : CreateTx(p)
    \/ \E p \in Procs : SignOfflineStart(p)
    \/ \E p \in Procs : SignOfflineSign(p)
    \/ \E p \in Procs : ExecuteTx(p)
    \/ Tick

SpecArgs == InitArgs /\ [][NextArgs]_vars

(***************************************************************************)
(* Runs made one after another in the same directory against the same      *)
(* ledger: the files and the ledger are what a run leaves to the next.     *)
(* A run ends by itself or is interrupted while its timer is pending.      *)
(***************************************************************************)
\* the process is interrupted (SIGINT) while setTimeout is pending: no
\* handler is installed, the process ends there
Cancel(p) ==
    /\ pc[p] = "so_wait"
    /\ pc' = [pc EXCEPT ![p] = "exited"]
    /\ exitCode' = [exitCode EXCEPT ![p] = 130]
    /\ obs' = [obs EXCEPT ![p].cancelled = TRUE]
    /\ UNCHANGED <<authKey, useNonce, waitTime, waitLeft, nonceKey,
                   cnBlockhash, mem, runState, fs, ledgerVars, usedKeys,
                   env>>

\* the program is started again once the previous process has ended
Restart(p) ==
    /\ pc[p] = "exited"
    /\ env.runs < MaxRuns
    /\ env' = [env EXCEPT !.runs = @ + 1,
                          !.leftUnsigned = fs[UNSIGNED],
                          !.leftSigned = fs[SIGNED]]
    /\ pc' = [pc EXCEPT ![p] = "start"]
    /\ useNonce' = [useNonce EXCEPT ![p] = FALSE]
    /\ waitTime' = [waitTime EXCEPT ![p] = 0]
    /\ waitLeft' = [waitLeft EXCEPT ![p] = 0]
    /\ nonceKey' = [nonceKey EXCEPT ![p] = NoKey]
    /\ cnBlockhash' = [cnBlockhash EXCEPT ![p] = NoHash]
    /\ mem' = [mem EXCEPT ![p] = NewTransaction]
    /\ runState' = [runState EXCEPT ![p] = "Init"]
    /\ exitCode' = [exitCode EXCEPT ![p] = -1]
    /\ obs' = [obs EXCEPT ![p] = NoObs]
    /\ UNCHANGED <<authKey, fs, ledgerVars, usedKeys>>

\* the blocks produced while a process waits for its timer; the blocks
\* produced at other times are left out of the next two specifications
WaitTick ==
    /\ \E p \in Procs : pc[p] = "so_wait" /\ waitLeft[p] > 0
    /\ Tick

NextRuns ==
    \/ \E p \in Procs : Start(p)
    \/ \E p \in Procs : CreateNonceFetch(p)
    \/ \E p \in Procs : CreateNonceSend(p)
    \/ \E p \in Procs : CreateNonceConfirm(p)
    \/ \E p \in Procs : CreateTx(p)
    \/ \E p \in Procs : SignOfflineStart(p)
    \/ \E p \in Procs : SignOfflineSign(p)
    \/ \E p \in Procs : ExecuteTx(p)
    \/ \E p \in Procs : Cancel(p)
    \/ \E p \in Procs : Restart(p)
    \/ WaitTick

SpecRuns == Init /\ [][NextRuns]_vars

(***************************************************************************)
(* Two instances of the program running in the same directory at the same  *)
(* time, with the same secrets, from the point where each has created its  *)
(* nonce account: the stages that use the artifact files.  The second      *)
(* instance is run with -waitTime 0.                                       *)
(***************************************************************************)
\* the history of a process whose createNonce has returned
ObsProvisioned ==
    [Rpc(Enter(NoObs, "createNonce"), 4) EXCEPT !.cnOutcome = "success"]

InitConc ==
    /\ authKey \in {SenderKey, OtherAuthKey}
    /\ useNonce \in [Procs -> BOOLEAN]
    /\ \E w \in {0, MaxWait} :
          waitTime = [p \in Procs |-> IF p = 1 THEN w ELSE 0]
    /\ waitLeft = [p \in Procs |-> 0]
    /\ cnBlockhash = [p \in Procs |-> Blockhash(0)]
    /\ mem = [p \in Procs |-> NewTransaction]
    /\ runState = [p \in Procs |-> StateAfter("createNonce")]
    /\ exitCode = [p \in Procs |-> -1]
    /\ fs = [f \in Paths |-> NoFile]
    /\ processed = {}
    /\ acceptLog = <<>>
    /\ env = [advance |-> 0, resubmit |-> 0, verdict |-> "none",
              wire |-> NoWire, runs |-> 1, leftUnsigned |-> NoFile,
              leftSigned |-> NoFile]
    /\ obs = [p \in Procs |-> ObsProvisioned]
    /\ pc = [p \in Procs |-> MainAfter("createNonce", FALSE)]
    /\ height = 0
    /\ \E k1 \in Generate({}) :
       \E k2 \in Generate({k1}) :
          /\ k1 < k2
          /\ nonceKey = [p \in Procs |-> IF p = 1 THEN k1 ELSE k2]
          /\ usedKeys = {k1, k2}
          /\ accounts = [k \in FreshKeys |->
                           IF k \in {k1, k2}
                           THEN [exists |-> TRUE, authority |-> authKey,
                                 n |-> 0]
                           ELSE NoAccount]

NextConc ==
    \/ \E p \in Procs : CreateTx(p)
    \/ \E p \in Procs : SignOfflineStart(p)
    \/ \E p \in Procs : SignOfflineSign(p)
    \/ \E p \in Procs : ExecuteTx(p)
    \/ WaitTick

SpecConc == InitConc /\ [][NextConc]_vars

(***************************************************************************)
(* The functions of src/app.ts called one at a time, in any order, by a    *)
(* caller that holds the Transaction object mem: the specification of the  *)
(* properties of the codec and of the signing stage by themselves.         *)
(***************************************************************************)
\* the directory is empty, the nonce account of the process exists and
\* one key is left for Keypair.generate() to return
InitUnit ==
    /\ InitCommon
    /\ pc = [p \in Procs |-> IF p = 1 THEN "unit" ELSE "absent"]
    /\ \E k \in Generate({}), d \in Generate({}) :
          /\ d # k
          /\ nonceKey = [p \in Procs |-> IF p = 1 THEN k ELSE NoKey]
          /\ usedKeys = FreshKeys \ {d}
          /\ accounts = [a \in FreshKeys |->
                           IF a = k
                           THEN [exists |-> TRUE, authority |-> authKey,
                                 n |-> 0]
                           ELSE NoAccount]
    /\ height = 0

Called(p, op, ok, path, all, mode) ==
    [obs[p] EXCEPT !.lastOp = op, !.lastOk = ok,
                   !.lastArg = [path |-> path, all |-> all, mode |-> mode]]

unitFixed == <<authKey, pc, useNonce, waitTime, waitLeft, nonceKey,
               cnBlockhash, runState, exitCode, ledgerVars, env>>

\* createTx(mode)
U_CreateTx(p, mode) ==
    /\ pc[p] = "unit"
    /\ \E d \in Generate(usedKeys) :
          /\ usedKeys' = usedKeys \cup {d}
          /\ \E r \in {CreateTxResult(mode, nonceKey[p], d)} :
                 /\ fs' = r.fs
                 /\ mem' = [mem EXCEPT ![p] = IF r.ok THEN r.tx ELSE @]
                 /\ obs' = [obs EXCEPT ![p] =
                              Called(p, "createTx", r.ok, UNSIGNED, FALSE,
                                     mode)]
    /\ UNCHANGED unitFixed

\* mem.sign(...) with the keypairs signOffline uses for the mode
U_Sign(p, mode) ==
    /\ pc[p] = "unit"
    /\ mem[p] # NewTransaction
    /\ \E r \in {Sign(mem[p], SignOfflineSigners(mode, authKey, SenderKey))} :
           /\ mem' = [mem EXCEPT ![p] = r.tx]
           /\ obs' = [obs EXCEPT ![p] = Called(p, "sign", r.ok, "", FALSE,
                                               mode)]
    /\ UNCHANGED <<unitFixed, fs, usedKeys>>

\* encodeAndWriteTransaction(mem, path, all)
U_Write(p, path, all) ==
    /\ pc[p] = "unit"
    /\ mem[p] # NewTransaction
    /\ \E r \in {EncodeAndWriteTransaction(fs, mem[p], path, all)} :
           /\ fs' = r.fs
           /\ mem' = [mem EXCEPT ![p] = r.tx]
           /\ obs' = [obs EXCEPT ![p] = Called(p, "write", r.ok, path, all,
                                               FALSE)]
    /\ UNCHANGED <<unitFixed, usedKeys>>

\* mem = readAndDecodeTransaction(path)
U_Read(p, path) ==
    /\ pc[p] = "unit"
    /\ \E r \in {ReadAndDecodeTransaction(fs, path)} :
           /\ mem' = [mem EXCEPT ![p] = IF r.ok THEN r.tx ELSE @]
           /\ obs' = [obs EXCEPT ![p] = Called(p, "read", r.ok, path, FALSE,
                                               FALSE)]
    /\ UNCHANGED <<unitFixed, fs, usedKeys>>

\* signOffline(0, mode)
U_SignOffline(p, mode) ==
    /\ pc[p] = "unit"
    /\ \E r \in {SignOffline(fs, mode, authKey, SenderKey)} :
       \E c \in {Called(p, "signOffline", r.ok, SIGNED, TRUE, mode)} :
           /\ fs' = r.fs
           /\ obs' = [obs EXCEPT ![p] =
                        IF r.ok
                        THEN [c EXCEPT
                                !.soRepeat = /\ obs[p].soLast.valid
                                             /\ obs[p].soLast.mode = mode
                                             /\ obs[p].soLast.input
                                                   = fs[UNSIGNED],
                                !.soLast = [valid |-> TRUE, mode |-> mode,
                                            input |-> fs[UNSIGNED],
                                            output |-> r.fs[SIGNED]]]
                        ELSE c]
    /\ UNCHANGED <<unitFixed, mem, usedKeys>>

NextUnit ==
    \/ \E p \in Procs, mode \in BOOLEAN : U_CreateTx(p, mode)
    \/ \E p \in Procs, mode \in BOOLEAN : U_Sign(p, mode)
    \/ \E p \in Procs, path \in Paths, all \in BOOLEAN : U_Write(p, path, all)
    \/ \E p \in Procs, path \in Paths : U_Read(p, path)
    \/ \E p \in Procs, mode \in BOOLEAN : U_SignOffline(p, mode)

SpecUnit == InitUnit /\ [][NextUnit]_vars

(***************************************************************************)
(* Claims.                                                                 *)
(***************************************************************************)
RunStates == <<"Init", "NonceProvisioned", "Drafted", "Signed", "Broadcast">>
Running ==
    {p \in Procs : pc[p] \notin {"absent", "unit", "start", "load", "main"}}

\* C1: in every run the stages are entered in the order createNonce,
\* createTx, signOffline, executeTx, each at most once and none skipped, the
\* run state advances one step per stage that returns, and once a stage has
\* thrown it is the last stage entered, the run state is the one reached
\* before that stage and the process has ended.
C1_StageOrder ==
    \A p \in Running :
        LET n == Len(obs[p].trace)
        IN  /\ n <= Len(Stages)
            /\ obs[p].trace = SubSeq(Stages, 1, n)
            /\ IF obs[p].failedAt # ""
               THEN /\ n >= 1
                    /\ obs[p].failedAt = Stages[n]
                    /\ runState[p] = RunStates[n]
                    /\ pc[p] = "exited"
               ELSE /\ runState[p] \in {RunStates[IF n = 0 THEN 1 ELSE n],
                                        RunStates[n + 1]}
                    /\ (pc[p] = "exited" => runState[p] = "Broadcast")

\* a stage other than the first has failed and the run has stopped there
C1_Witness ==
    /\ obs[1].failedAt = "executeTx"
    /\ runState[1] = "Signed"
    /\ pc[1] = "exited"

\* the required signers of a transaction: the fee payer and the signer
\* accounts of its instructions
RequiredSigners(tx) ==
    {tx.feePayer} \cup
    UNION {{tx.instructions[i].keys[k].pubkey :
              k \in {j \in 1 .. Len(tx.instructions[i].keys) :
                       tx.instructions[i].keys[j].isSigner}} :
           i \in 1 .. Len(tx.instructions)}

FilledSlots(tx) ==
    {tx.signatures[i].publicKey :
        i \in {j \in 1 .. Len(tx.signatures) :
                 tx.signatures[j].signature # NoSig}}

HasEmptySlot(tx) == ~(RequiredSigners(tx) \subseteq FilledSlots(tx))

\* C2: a call of encodeAndWriteTransaction with requireAllSignatures = true
\* on a transaction with an empty required signer slot throws and leaves
\* both files as they were; with every required slot filled it returns and
\* the file at the path holds the encoded transaction.
C2_FailClosed ==
    [][\A p \in Procs, path \in Paths :
          U_Write(p, path, TRUE) =>
             IF HasEmptySlot(mem[p])
             THEN ~obs'[p].lastOk /\ fs' = fs
             ELSE /\ obs'[p].lastOk
                  /\ fs'[path] # NoFile
                  /\ ~HasEmptySlot(TransactionFrom(Decode(fs'[path])))]_vars

\* the write of a transaction without any signature over an existing file
\* has thrown
C2_Witness ==
    /\ obs[1].lastOp = "write"
    /\ obs[1].lastArg.all
    /\ ~obs[1].lastOk
    /\ FilledSlots(mem[1]) = {}
    /\ fs[obs[1].lastArg.path] # NoFile

\* C3: when the ledger answers executeTx, a blockhash-mode transaction
\* whose offline delay was longer than the validity window is refused as
\* expired (blockhash not found), and a nonce-mode transaction whose nonce
\* account still stores the nonce read at draft time is accepted, whatever
\* the delay.
C3_DelayOutcome ==
    \A p \in Running :
        obs[p].verdict \notin {"none", "NetworkError"} =>
           /\ (~useNonce[p]
               /\ obs[p].signHeight - obs[p].draftHeight > ValidityWindow)
                 => obs[p].verdict = "BlockhashNotFound"
           /\ (useNonce[p] /\ obs[p].sendNonce = obs[p].draftNonce)
                 => obs[p].verdict = "accepted"

\* a blockhash-mode run has been refused after a delay longer than the
\* validity window
C3_Witness ==
    /\ ~useNonce[1]
    /\ obs[1].signHeight - obs[1].draftHeight > ValidityWindow
    /\ obs[1].verdict = "BlockhashNotFound"

\* a nonce-mode run has been accepted after the same delay
C3_WitnessNonce ==
    /\ useNonce[1]
    /\ obs[1].signHeight - obs[1].draftHeight > ValidityWindow
    /\ obs[1].verdict = "accepted"

Drafted(p) ==
    /\ p \in Running
    /\ Len(obs[p].trace) >= 2
    /\ obs[p].failedAt # "createTx"

Occurrences(log, w) == Cardinality({i \in 1 .. Len(log) : log[i] = w})

\* C4: a nonce-mode transaction carries the nonce value stored in the nonce
\* account when createTx read it; no transaction is accepted twice; a
\* signed nonce-mode artifact whose nonce account has since been advanced
\* is refused by the ledger; and a zero-delay nonce-mode run whose
\* submission reaches the ledger with the nonce still current is accepted
\* exactly once, resubmissions included.
C4_NonceSingleUse ==
    /\ \A p \in Procs :
          (Drafted(p) /\ useNonce[p]) =>
              obs[p].draftTx.recentBlockhash = obs[p].draftNonce
    /\ \A i, j \in 1 .. Len(acceptLog) :
          acceptLog[i] = acceptLog[j] => i = j
    /\ fs[SIGNED] # NoFile =>
          LET w == Decode(fs[SIGNED])
          IN  (/\ w.message.recentBlockhash.kind = "nonce"
               /\ StoredNonce(accounts, w.message.recentBlockhash.acct)
                     # w.message.recentBlockhash)
                 => LedgerVerdict(w, height, accounts, processed)
                       # "accepted"
    /\ \A p \in Running :
          (/\ useNonce[p] /\ waitTime[p] = 0
           /\ obs[p].verdict \notin {"none", "NetworkError"}
           /\ obs[p].sendNonce = obs[p].draftNonce)
             => Occurrences(acceptLog, obs[p].sent) = 1

\* the run's nonce-mode transaction was accepted and a later submission of
\* the same signed artifact has been refused
C4_Witness ==
    /\ useNonce[1]
    /\ obs[1].verdict = "accepted"
    /\ env.wire = obs[1].sent
    /\ env.verdict = "BlockhashNotFound"
    /\ Occurrences(acceptLog, obs[1].sent) = 1

InstructionTypes(tx) ==
    [i \in 1 .. Len(tx.instructions) |-> tx.instructions[i].data.type]

\* C5: the transaction drafted by createTx in nonce mode is exactly
\* [advance-nonce(authority, nonce account), transfer(sender -> fresh
\* destination, TRANSFER_AMOUNT)], the advance first; in blockhash mode it
\* is exactly [transfer] with no advance instruction; the fee payer is the
\* sender in both modes; and the unsigned artifact holds these instructions.
C5_ModeInstructions ==
    \A p \in Procs :
        Drafted(p) =>
           LET tx == obs[p].draftTx
               ixs == tx.instructions
               tr == ixs[Len(ixs)]
           IN  /\ tx.feePayer = SenderKey
               /\ InstructionTypes(tx) =
                     IF useNonce[p]
                     THEN <<"AdvanceNonceAccount", "Transfer">>
                     ELSE <<"Transfer">>
               /\ useNonce[p] =>
                     /\ ixs[1].programId = SystemProgramId
                     /\ ixs[1].keys[1].pubkey = nonceKey[p]
                     /\ ixs[1].keys[3].pubkey = authKey
                     /\ ixs[1].keys[3].isSigner
               /\ tr.programId = SystemProgramId
               /\ tr.keys[1].pubkey = SenderKey
               /\ tr.keys[2].pubkey \in usedKeys \ {nonceKey[p]}
               /\ tr.data.lamports = TRANSFER_AMOUNT
               /\ fs[UNSIGNED] # NoFile
               /\ LET onDisk == TransactionFrom(Decode(fs[UNSIGNED]))
                  IN  /\ InstructionTypes(onDisk) = InstructionTypes(tx)
                      /\ onDisk.feePayer = SenderKey

\* a nonce-mode transaction has been drafted
C5_Witness ==
    /\ Drafted(1)
    /\ useNonce[1]
    /\ Len(obs[1].draftTx.instructions) = 2

WireSigners(wire) ==
    {wire.signatures[i].signer :
        i \in {j \in 1 .. Len(wire.signatures) :
                 wire.signatures[j] # ZeroSig}}

\* C6: whenever a file exists at the signed path it holds a transaction
\* with no empty signature slot and with valid signatures of exactly the
\* nonce authority and the sender in nonce mode, of exactly the sender in
\* blockhash mode; and signOffline has written that file when the run is
\* in state Signed or later.
C6_SignedArtifact ==
    /\ fs[SIGNED] # NoFile =>
          LET w == Decode(fs[SIGNED])
          IN  /\ \A i \in 1 .. Len(w.signatures) : w.signatures[i] # ZeroSig
              /\ ~HasEmptySlot(TransactionFrom(w))
              /\ SignaturesValid(w)
              /\ \A p \in Running :
                    WireSigners(w) = IF useNonce[p]
                                     THEN {authKey, SenderKey}
                                     ELSE {SenderKey}
    /\ \A p \in Running :
          runState[p] \in {"Signed", "Broadcast"} => fs[SIGNED] # NoFile

\* a nonce-mode signed artifact with two distinct signers has been written
C6_Witness ==
    /\ useNonce[1]
    /\ runState[1] = "Signed"
    /\ fs[SIGNED] # NoFile
    /\ Cardinality(WireSigners(Decode(fs[SIGNED]))) = 2

\* a transaction as createTx constructs it: no signature yet
Unsigned(tx) == tx # NewTransaction /\ FilledSlots(tx) = {}

\* the last call wrote mem with requireAllSignatures = false
WroteUnsigned(p) ==
    /\ pc[p] = "unit"
    /\ obs[p].lastOp \in {"createTx", "write"}
    /\ ~obs[p].lastArg.all
    /\ obs[p].lastOk
    /\ Unsigned(mem[p])

ReadBack(p) == ReadAndDecodeTransaction(fs, obs[p].lastArg.path)

\* C7 as stated: the transaction read back equals the transaction written
\* in instruction list, fee payer, validity reference and signature slots.
C7_RoundTripExact ==
    \A p \in Procs :
        WroteUnsigned(p) =>
           /\ ReadBack(p).ok
           /\ ReadBack(p).tx.instructions = mem[p].instructions
           /\ ReadBack(p).tx.feePayer = mem[p].feePayer
           /\ ReadBack(p).tx.recentBlockhash = mem[p].recentBlockhash
           /\ ReadBack(p).tx.signatures = mem[p].signatures

\* the account of an instruction whose writable flag the wire form does
\* not keep: an account listed read-only that is also the fee payer or is
\* writable in another instruction
MergedWritable(tx, i, k) ==
    /\ ~tx.instructions[i].keys[k].isWritable
    /\ \/ tx.instructions[i].keys[k].pubkey = tx.feePayer
       \/ \E j \in 1 .. Len(tx.instructions) :
            \E l \in 1 .. Len(tx.instructions[j].keys) :
               /\ tx.instructions[j].keys[l].pubkey
                     = tx.instructions[i].keys[k].pubkey
               /\ tx.instructions[j].keys[l].isWritable

\* C7 amended: the transaction read back equals the transaction written in
\* fee payer, validity reference, signature slots (the empty ones
\* included) and in the instruction list - programs, data, account keys
\* in order and signer flags - and in every writable flag except that of
\* an account which the transaction also uses as writable, which reads
\* back writable: the authority account of the advance instruction when
\* the nonce authority is the sender.
C7_RoundTrip ==
    \A p \in Procs :
        WroteUnsigned(p) =>
           LET t == mem[p]
               r == ReadBack(p).tx
           IN  /\ ReadBack(p).ok
               /\ r.feePayer = t.feePayer
               /\ r.recentBlockhash = t.recentBlockhash
               /\ r.signatures = t.signatures
               /\ Len(r.signatures) = Cardinality(RequiredSigners(t))
               /\ Len(r.instructions) = Len(t.instructions)
               /\ \A i \in 1 .. Len(t.instructions) :
                    /\ r.instructions[i].programId
                          = t.instructions[i].programId
                    /\ r.instructions[i].data = t.instructions[i].data
                    /\ Len(r.instructions[i].keys)
                          = Len(t.instructions[i].keys)
                    /\ \A k \in 1 .. Len(t.instructions[i].keys) :
                         LET a == t.instructions[i].keys[k]
                             b == r.instructions[i].keys[k]
                         IN  /\ b.pubkey = a.pubkey
                             /\ b.isSigner = a.isSigner
                             /\ b.isWritable =
                                  (a.isWritable \/ MergedWritable(t, i, k))
                             /\ MergedWritable(t, i, k) =>
                                  /\ authKey = SenderKey
                                  /\ t.instructions[i].data.type
                                        = "AdvanceNonceAccount"
                                  /\ k = 3

\* a nonce-mode draft with two empty slots has been written and read back
C7_Witness ==
    /\ WroteUnsigned(1)
    /\ Len(mem[1].instructions) = 2
    /\ Len(mem[1].signatures) = 2
    /\ ReadBack(1).ok

\* a nonce-mode draft of a sender that is its own nonce authority
C7_WitnessSameKey ==
    /\ WroteUnsigned(1)
    /\ Len(mem[1].instructions) = 2
    /\ authKey = SenderKey
    /\ obs[1].lastOp = "createTx"

\* C8: a call of signOffline that returns leaves the unsigned artifact as
\* it was, and when the previous call that returned had the same unsigned
\* artifact and the same mode, it writes the same signed artifact again.
C8_ResignIdempotent ==
    [][\A p \in Procs, mode \in BOOLEAN :
          (U_SignOffline(p, mode) /\ obs'[p].lastOk) =>
             /\ fs'[UNSIGNED] = fs[UNSIGNED]
             /\ fs'[SIGNED] # NoFile
             /\ (/\ obs[p].soLast.valid
                 /\ obs[p].soLast.mode = mode
                 /\ obs[p].soLast.input = fs[UNSIGNED])
                   => fs'[SIGNED] = obs[p].soLast.output]_vars

\* signOffline has run twice on the same unsigned artifact in nonce mode
C8_Witness ==
    /\ obs[1].lastOp = "signOffline"
    /\ obs[1].lastOk
    /\ obs[1].soRepeat
    /\ obs[1].soLast.mode
    /\ fs[SIGNED] = obs[1].soLast.output

\* C9 as stated: when the creation transaction is not submitted or its
\* confirmation does not report success (a call throws, or the status
\* returned is an error), createNonce fails and createTx, signOffline and
\* executeTx do not run.
C9_CreationFailureHalts ==
    \A p \in Running :
        obs[p].cnOutcome \in {"sendThrew", "confirmThrew", "confirmErr"} =>
           /\ obs[p].failedAt = "createNonce"
           /\ obs[p].trace = <<"createNonce">>

\* C10 as stated: a run in which a stage failed ends with exactly one
\* error report and a non-zero exit status.
C10_SingleReportNonZeroExit ==
    \A p \in Running :
        (obs[p].failedAt # "" /\ pc[p] = "exited") =>
           /\ obs[p].reports = 1
           /\ exitCode[p] # 0

\* C13 as stated: when the ledger has accepted the transaction executeTx
\* submitted, the value executeTx returned to its caller is the identifier
\* of that transaction (its first signature).
C13_ReturnsIdentifier ==
    \A p \in Running :
        obs[p].verdict = "accepted" =>
           /\ obs[p].returned.defined
           /\ obs[p].returned.value = obs[p].sent.signatures[1]

\* the faults of a command line, read as a list of -useNonce and
\* -waitTime VALUE: a word where a flag is expected ("unknown"), -waitTime
\* as the last argument ("novalue"), a VALUE that is not an integer
\* ("notinteger")
RECURSIVE ArgFaults(_, _)
ArgFaults(argv, i) ==
    IF i > Len(argv) THEN {}
    ELSE IF argv[i] = "-useNonce" THEN ArgFaults(argv, i + 1)
    ELSE IF argv[i] = "-waitTime"
    THEN IF i = Len(argv) THEN {"novalue"}
         ELSE (IF argv[i + 1] = "2" THEN {} ELSE {"notinteger"})
              \cup ArgFaults(argv, i + 2)
    ELSE {"unknown"} \cup ArgFaults(argv, i + 1)

\* the process is past parseCommandLineArgs
Parsed(p) == pc[p] \notin {"absent", "unit", "start", "load", "main"}

\* C11: once main is past parseCommandLineArgs, a command line with an
\* unknown flag or with -waitTime as its last argument has ended the
\* process with status 1 after one error report, no stage was entered, no
\* RPC request was issued and neither artifact file exists; and with no
\* arguments useNonce is false and waitTime is 120000.
C11_BadArgsExit ==
    \A p \in Procs :
        Parsed(p) =>
           /\ ArgFaults(obs[p].argv, 1) \cap {"unknown", "novalue"} # {} =>
                 /\ pc[p] = "exited"
                 /\ exitCode[p] = 1
                 /\ obs[p].reports = 1
                 /\ obs[p].trace = <<>>
                 /\ obs[p].rpc = 0
                 /\ \A f \in Paths : fs[f] = NoFile
           /\ (obs[p].argv = <<>> /\ pc[p] # "exited") =>
                 /\ ~useNonce[p]
                 /\ waitTime[p] = 120000

\* -waitTime was the last argument and the process has ended
C11_Witness ==
    /\ obs[1].argv = <<"-useNonce", "-waitTime">>
    /\ pc[1] = "exited"
    /\ exitCode[1] = 1
    /\ obs[1].rpc = 0

\* a run without arguments has reached its first stage
C11_WitnessDefaults ==
    /\ obs[1].argv = <<>>
    /\ pc[1] = "cn_send"
    /\ waitTime[1] = 120000

\* C12 as stated: a process whose configuration is in error - a secret
\* missing or malformed, an unknown flag, -waitTime without a value or
\* with a value that is not an integer - issues no RPC request and enters
\* no stage.
C12_ConfigErrorPreflight ==
    \A p \in Procs :
        (\/ ~SecretsLoad(obs[p].senderSecret, obs[p].authSecret)
         \/ ArgFaults(obs[p].argv, 1) # {}) =>
            /\ obs[p].rpc = 0
            /\ obs[p].trace = <<>>

\* C14 as stated: the unsigned artifact signOffline reads and signs is the
\* content the file had when the stage started, whatever was written to
\* the file while the delay was pending.
C14_SignsStartContent ==
    \A p \in Running :
        obs[p].soInput # NoFile => obs[p].soInput = obs[p].soStartFile

\* C15 as stated: a run interrupted while its delay was pending has
\* stopped in state Drafted, the unsigned artifact is on disk and no
\* signed artifact is, whatever runs were made before it.
C15_CancelLeavesUnsignedOnly ==
    \A p \in Procs :
        obs[p].cancelled =>
           /\ pc[p] = "exited"
           /\ runState[p] = "Drafted"
           /\ fs[UNSIGNED] # NoFile
           /\ fs[SIGNED] = NoFile

\* the message a transaction compiles to
MessageOfTx(tx) == CompileMessage(tx).message

\* C16: in every run of a sequence of runs, signOffline starts only after
\* createTx of the same run has written the unsigned artifact, it reads
\* that artifact and not the one an earlier run left, executeTx runs only
\* after signOffline of the same run has written the signed artifact, and
\* what executeTx submits is that artifact - the draft of this run with
\* its signatures - and not the signed artifact an earlier run left.
C16_OwnArtifactsOnly ==
    \A p \in Running :
        /\ Len(obs[p].trace) >= 3 =>
              /\ obs[p].draftFile # NoFile
              /\ obs[p].soStartFile = obs[p].draftFile
              /\ obs[p].draftFile # env.leftUnsigned
        /\ obs[p].soInput # NoFile =>
              /\ obs[p].soInput = obs[p].draftFile
              /\ obs[p].soInput # env.leftUnsigned
        /\ Len(obs[p].trace) >= 4 =>
              /\ obs[p].signedFile # NoFile
              /\ obs[p].signedFile # env.leftSigned
              /\ obs[p].sent # NoWire
              /\ Encode(obs[p].sent) = obs[p].signedFile
              /\ obs[p].sent.message = MessageOfTx(obs[p].draftTx)

\* the second run has submitted its transaction in a directory where the
\* first run had left both artifacts
C16_Witness ==
    /\ env.runs = 2
    /\ env.leftUnsigned # NoFile
    /\ env.leftSigned # NoFile
    /\ obs[1].sent # NoWire
    /\ obs[1].verdict = "accepted"

\* the second run has signed in a directory where the first run, stopped
\* before signing, had left an unsigned artifact only
C16_WitnessAfterFailure ==
    /\ env.runs = 2
    /\ env.leftUnsigned # NoFile
    /\ env.leftSigned = NoFile
    /\ runState[1] = "Signed"

\* instance p has signed the draft of instance q
SignedDraftOf(p, q) ==
    /\ p # q
    /\ obs[q].draftFile # NoFile
    /\ obs[p].draftFile # NoFile
    /\ obs[p].soInput = obs[q].draftFile
    /\ obs[p].signedFile # NoFile

C18_SignersMatch ==
    \A p \in Running :
        Drafted(p) =>
           /\ Range(SignOfflineSigners(useNonce[p], authKey, SenderKey))
                 = RequiredSigners(obs[p].draftTx)
           /\ obs[p].failedAt # "signOffline"
           /\ (Len(obs[p].trace) >= 3 /\ pc[p] # "so_wait") =>
                 /\ runState[p] \in {"Signed", "Broadcast"}
                 /\ obs[p].signedFile # NoFile

\* a nonce-mode run of a sender that is its own nonce authority has signed
C18_Witness ==
    /\ useNonce[1]
    /\ authKey = SenderKey
    /\ Drafted(1)
    /\ runState[1] = "Signed"
    /\ Cardinality(RequiredSigners(obs[1].draftTx)) = 1

====
